---------------------------- MODULE Spec2Model ----------------------------
(***************************************************************************)
(* The client-side clean-audio renderer (cleanAudioRenderer):              *)
(* createVolumeAutomation, encodeWAV and renderCleanAudio.                 *)
(*                                                                         *)
(* Units.  Times are exact rationals <<n, d>> (n/d) counted in units of    *)
(* 10 ms, so the code's 0.03 s is 3 and its 0.1 s is 10.  Sample values    *)
(* and gains are exact rationals too: the float rounding of the browser's  *)
(* audio engine is not modelled.  The Web Audio objects the code drives    *)
(* (AudioParam timeline, AudioBufferSourceNode, GainNode, destination)     *)
(* follow the W3C Web Audio API recommendation.                            *)
(***************************************************************************)
EXTENDS Integers, Sequences, FiniteSets, TLC

VARIABLES
    vocalsUrl,        \* the audio the vocals URL serves (input)
    instrumentalUrl,  \* the audio the instrumental URL serves (input)
    muteRegions,      \* the MuteRegion[] argument (input)
    ctxRate,          \* sampleRate of the temporary AudioContext (hardware)
    onProgress,       \* the optional progress callback (input)
    outcomes,         \* what each fetch + decode and the rendering will do
    pc,               \* where the renderCleanAudio call stands
    loads,            \* state of the two loadAudioBuffer promises
    loadOrder,        \* the order in which the two loads completed
    buffers,          \* [vocalsBuffer, instrumentalBuffer] of Promise.all
    totalSamples,     \* length of the OfflineAudioContext
    mergedRegions,    \* mergedRegions of createVolumeAutomation
    gainEvents,       \* automation timeline of vocalsGain.gain
    renderedBuffer,   \* result of startRendering()
    blob,             \* bytes of the returned Blob
    calls,            \* number of renderCleanAudio calls made so far
    prevBlob,         \* bytes returned by the previous call, if any
    reports,          \* the (stage, progress) pairs the callback received
    fetches,          \* number of requests the call made for each URL
    tempContext,      \* the temporary AudioContext of the call
    error             \* what the call's promise rejects with

vars == <<vocalsUrl, instrumentalUrl, muteRegions, ctxRate, onProgress, outcomes,
          pc, loads, loadOrder, buffers, totalSamples, mergedRegions, gainEvents,
          renderedBuffer, blob, calls, prevBlob, reports, fetches, tempContext,
          error>>

\* what a call is given and what its environment decides
inputVars == <<vocalsUrl, instrumentalUrl, muteRegions, ctxRate, onProgress, outcomes>>

-----------------------------------------------------------------------------
(* Bounds of the model *)

\* longest region list handed to renderCleanAudio
MaxRegions == 2
\* number of renderCleanAudio calls made on the same inputs
MaxCalls == 2

-----------------------------------------------------------------------------
(* Program constants, in units of 10 ms *)

\* const fadeTime = 0.03
FadeTime == 3
\* region.start <= last.end + 0.1
MergeGap == 10
\* (w.start || 0) - 0.1
PadBefore == 10
\* (w.end || (w.start + 0.8)) + 0.2
PadAfter == 20
\* w.end || (w.start + 0.8)
DefaultWordLength == 80

-----------------------------------------------------------------------------
(* Exact rational arithmetic *)

Max(a, b) == IF a >= b THEN a ELSE b
Min(a, b) == IF a <= b THEN a ELSE b
Abs(a) == IF a < 0 THEN -a ELSE a

RECURSIVE GCD(_, _)
GCD(a, b) == IF b = 0 THEN a ELSE GCD(b, a % b)

\* the rational n/d in lowest terms with a positive denominator
Rat(n, d) ==
    LET s == IF d < 0 THEN -1 ELSE 1
        g == GCD(Abs(n), Abs(d))
    IN  <<(s * n) \div g, (s * d) \div g>>

RInt(k) == <<k, 1>>
RAdd(a, b) == Rat(a[1] * b[2] + b[1] * a[2], a[2] * b[2])
RSub(a, b) == Rat(a[1] * b[2] - b[1] * a[2], a[2] * b[2])
RMul(a, b) == Rat(a[1] * b[1], a[2] * b[2])
RDiv(a, b) == Rat(a[1] * b[2], a[2] * b[1])
RLeq(a, b) == a[1] * b[2] <= b[1] * a[2]
RLt(a, b) == a[1] * b[2] < b[1] * a[2]
RMax(a, b) == IF RLeq(b, a) THEN a ELSE b
RMin(a, b) == IF RLeq(a, b) THEN a ELSE b
\* Math.ceil
RCeil(a) == -((-a[1]) \div a[2])
\* truncation toward zero (ToInt16 of a value within range)
RTrunc(a) == IF a[1] >= 0 THEN a[1] \div a[2] ELSE -((-a[1]) \div a[2])

-----------------------------------------------------------------------------
(* createVolumeAutomation *)

\* [...muteRegions].sort((a, b) => a.start - b.start): a stable sort
InsertByStart(sorted, region) ==
    LET k == Cardinality({i \in 1..Len(sorted) : sorted[i].start <= region.start})
    IN  SubSeq(sorted, 1, k) \o <<region>> \o SubSeq(sorted, k + 1, Len(sorted))

RECURSIVE SortFrom(_, _)
SortFrom(regions, n) ==
    IF n = 0 THEN <<>> ELSE InsertByStart(SortFrom(regions, n - 1), regions[n])

SortRegions(regions) == SortFrom(regions, Len(regions))

\* a merge loop that absorbs a region only when it starts less than 0.1 s
\* after the current interval's end
MergeStepStrict(merged, region) ==
    IF Len(merged) = 0
    THEN <<region>>
    ELSE LET last == merged[Len(merged)]
         IN  IF region.start < last.end + MergeGap
             THEN [merged EXCEPT
                      ![Len(merged)].end = Max(last.end, region.end)]
             ELSE Append(merged, region)

\* a merge loop that never merges
MergeStepNoMerge(merged, region) == Append(merged, region)

\* one turn of the merge loop
MergeStep(merged, region) ==
    IF Len(merged) = 0
    THEN <<region>>
    ELSE LET last == merged[Len(merged)]
         IN  IF region.start <= last.end + MergeGap
             THEN [merged EXCEPT
                      ![Len(merged)].end = Max(last.end, region.end)]
             ELSE Append(merged, region)

RECURSIVE MergeFrom(_, _)
MergeFrom(sortedRegions, n) ==
    IF n = 0 THEN <<>>
    ELSE MergeStep(MergeFrom(sortedRegions, n - 1), sortedRegions[n])

MergeRegions(regions) ==
    LET sortedRegions == SortRegions(regions)
    IN  MergeFrom(sortedRegions, Len(sortedRegions))

\* AudioParam: an event goes after the events at the same or an earlier time
InsertEvent(timeline, ev) ==
    LET k == Cardinality({i \in 1..Len(timeline) : RLeq(timeline[i].time, ev.time)})
    IN  SubSeq(timeline, 1, k) \o <<ev>> \o SubSeq(timeline, k + 1, Len(timeline))

SetValueAtTime(timeline, value, time) ==
    InsertEvent(timeline, [type |-> "setValueAtTime", value |-> value, time |-> time])

LinearRampToValueAtTime(timeline, value, time) ==
    InsertEvent(timeline, [type |-> "linearRampToValueAtTime", value |-> value, time |-> time])

\* a loop body that ends the mute one fade time early: the fade-in is placed
\* inside the region instead of after it
AutomateRegionFadeInside(timeline, region, duration) ==
    LET muteStart == RMax(RInt(0), RInt(region.start - FadeTime))
        muteEnd == RMin(duration, RInt(region.end))
        t1 == SetValueAtTime(timeline, 1, muteStart)
        t2 == LinearRampToValueAtTime(t1, 0, RAdd(muteStart, RInt(FadeTime)))
        t3 == SetValueAtTime(t2, 0, RSub(muteEnd, RInt(FadeTime)))
    IN  LinearRampToValueAtTime(t3, 1, muteEnd)

\* a loop body whose 'stay muted' event is set at muteEnd itself: the gain
\* jumps back to 1 instead of fading in
AutomateRegionLateHold(timeline, region, duration) ==
    LET muteStart == RMax(RInt(0), RInt(region.start - FadeTime))
        muteEnd == RMin(duration, RInt(region.end + FadeTime))
        t1 == SetValueAtTime(timeline, 1, muteStart)
        t2 == LinearRampToValueAtTime(t1, 0, RAdd(muteStart, RInt(FadeTime)))
        t3 == SetValueAtTime(t2, 0, muteEnd)
    IN  LinearRampToValueAtTime(t3, 1, muteEnd)

\* the body of the loop over mergedRegions
AutomateRegion(timeline, region, duration) ==
    LET muteStart == RMax(RInt(0), RInt(region.start - FadeTime))
        muteEnd == RMin(duration, RInt(region.end + FadeTime))
        t1 == SetValueAtTime(timeline, 1, muteStart)
        t2 == LinearRampToValueAtTime(t1, 0, RAdd(muteStart, RInt(FadeTime)))
        t3 == SetValueAtTime(t2, 0, RSub(muteEnd, RInt(FadeTime)))
    IN  LinearRampToValueAtTime(t3, 1, muteEnd)

\* an automation that starts at gain 0 instead of full volume
RECURSIVE AutomateFromSilence(_, _, _)
AutomateFromSilence(merged, n, duration) ==
    IF n = 0 THEN SetValueAtTime(<<>>, 0, RInt(0))
    ELSE AutomateRegion(AutomateFromSilence(merged, n - 1, duration),
                        merged[n], duration)

RECURSIVE AutomateFrom(_, _, _)
AutomateFrom(merged, n, duration) ==
    IF n = 0 THEN SetValueAtTime(<<>>, 1, RInt(0))
    ELSE AutomateRegion(AutomateFrom(merged, n - 1, duration),
                        merged[n], duration)

CreateVolumeAutomation(regions, duration) ==
    LET merged == MergeRegions(regions)
    IN  AutomateFrom(merged, Len(merged), duration)

\* the times handed to the four calls made for one merged region, in the
\* order of the calls
RegionEventTimes(region, duration) ==
    LET muteStart == RMax(RInt(0), RInt(region.start - FadeTime))
        muteEnd == RMin(duration, RInt(region.end + FadeTime))
    IN  <<muteStart, RAdd(muteStart, RInt(FadeTime)),
          RSub(muteEnd, RInt(FadeTime)), muteEnd>>

\* the times of all the events createVolumeAutomation schedules, in the order
\* of the calls: setValueAtTime(1, 0), then four per merged region
EmittedTimes(regions, duration) ==
    LET merged == MergeRegions(regions)
    IN  [j \in 1..(1 + 4 * Len(merged)) |->
            IF j = 1 THEN RInt(0)
            ELSE RegionEventTimes(merged[((j - 2) \div 4) + 1], duration)[((j - 2) % 4) + 1]]

\* AudioParam: the value of the timeline at time t (t >= 0)
GainAt(timeline, t) ==
    LET k == Cardinality({i \in 1..Len(timeline) : RLeq(timeline[i].time, t)})
    IN  IF k = 0 THEN RInt(1)
        ELSE LET ev == timeline[k]
             IN  IF k < Len(timeline) /\ timeline[k + 1].type = "linearRampToValueAtTime"
                 THEN LET nx == timeline[k + 1]
                      IN  RAdd(RInt(ev.value),
                               RMul(RInt(nx.value - ev.value),
                                    RDiv(RSub(t, ev.time), RSub(nx.time, ev.time))))
                 ELSE RInt(ev.value)


-----------------------------------------------------------------------------
(* The decoder (decodeAudioData of the temporary AudioContext) *)

\* sample i (from 0) of channel c of a recording, as the decoder returns it
SampleOf(tone, c, i) ==
    CASE tone = "silence" -> RInt(0)
      [] tone = "tone" -> Rat(<<2, 4, 2, -2, -4, -2>>[((i + c) % 6) + 1], 4)
      [] tone = "beat" -> Rat(<<1, -3, 3, -1>>[((i + 2 * c) % 4) + 1], 4)

\* decodeAudioData resamples to the context's rate: a recording of `ticks`
\* time units becomes ticks * rate frames
Decode(audio, rate) ==
    [length |-> audio.ticks * rate,
     sampleRate |-> rate,
     numberOfChannels |-> audio.channels,
     data |-> [c \in 1..audio.channels |->
                  [i \in 1..(audio.ticks * rate) |-> SampleOf(audio.tone, c, i - 1)]]]

\* AudioBuffer.duration
Duration(buffer) == Rat(buffer.length, buffer.sampleRate)

-----------------------------------------------------------------------------
(* The audio graph of renderCleanAudio, rendered by startRendering *)

\* a Promise.all that yields the values in the order of completion
PromiseAllByCompletion(results, order) == <<results[order[1]], results[order[2]]>>

\* Promise.all resolves with the values in the order of its argument
PromiseAll(results, order) == <<results.vocals, results.instrumental>>

\* a length taken from the vocals alone
TotalSamplesOfVocals(vocalsBuffer, instrumentalBuffer) ==
    RCeil(RMul(Duration(vocalsBuffer), RInt(vocalsBuffer.sampleRate)))

\* Math.ceil(duration * sampleRate)
TotalSamples(vocalsBuffer, instrumentalBuffer) ==
    LET duration == RMax(Duration(vocalsBuffer), Duration(instrumentalBuffer))
    IN  RCeil(RMul(duration, RInt(vocalsBuffer.sampleRate)))

\* a source that loops its buffer
SourceOutLooped(buffer, c, i) ==
    IF buffer.numberOfChannels = 1 THEN buffer.data[1][(i % buffer.length) + 1]
    ELSE buffer.data[c][(i % buffer.length) + 1]

\* a source whose mono buffer reaches the left channel only
SourceOutMonoLeft(buffer, c, i) ==
    IF i >= buffer.length THEN RInt(0)
    ELSE IF buffer.numberOfChannels = 1
         THEN (IF c = 1 THEN buffer.data[1][i + 1] ELSE RInt(0))
    ELSE buffer.data[c][i + 1]

\* output of an AudioBufferSourceNode started at 0, as the stereo destination
\* sees it: silence after the buffer's end, a mono buffer on both channels
SourceOut(buffer, c, i) ==
    IF i >= buffer.length THEN RInt(0)
    ELSE IF buffer.numberOfChannels = 1 THEN buffer.data[1][i + 1]
    ELSE buffer.data[c][i + 1]

\* vocalsSource -> vocalsGain: the a-rate gain at the frame's time
VocalsGainOut(vocalsBuffer, timeline, rate, c, i) ==
    RMul(SourceOut(vocalsBuffer, c, i), GainAt(timeline, Rat(i, rate)))

\* a graph in which the instrumental goes through vocalsGain too
DestinationOutAllGained(vocalsBuffer, instrumentalBuffer, timeline, rate, c, i) ==
    RMul(RAdd(SourceOut(vocalsBuffer, c, i), SourceOut(instrumentalBuffer, c, i)),
         GainAt(timeline, Rat(i, rate)))

\* the destination sums vocalsGain and instrumentalSource
DestinationOut(vocalsBuffer, instrumentalBuffer, timeline, rate, c, i) ==
    RAdd(VocalsGainOut(vocalsBuffer, timeline, rate, c, i),
         SourceOut(instrumentalBuffer, c, i))

StartRendering(vocalsBuffer, instrumentalBuffer, timeline, n, rate) ==
    [length |-> n,
     sampleRate |-> rate,
     numberOfChannels |-> 2,
     data |-> [c \in 1..2 |->
                  [i \in 1..n |-> DestinationOut(vocalsBuffer, instrumentalBuffer,
                                                 timeline, rate, c, i - 1)]]]

-----------------------------------------------------------------------------
(* encodeWAV *)

U16(x) == <<x % 256, (x \div 256) % 256>>
U32(x) == <<x % 256, (x \div 256) % 256, (x \div 65536) % 256, (x \div 16777216) % 256>>

\* channels written one after the other instead of frame by frame
InterleaveChannelsPlanar(audioBuffer) ==
    IF audioBuffer.numberOfChannels = 1
    THEN audioBuffer.data[1]
    ELSE audioBuffer.data[1] \o audioBuffer.data[2]

InterleaveChannels(audioBuffer) ==
    IF audioBuffer.numberOfChannels = 1
    THEN audioBuffer.data[1]
    ELSE [k \in 1..(2 * audioBuffer.length) |->
             audioBuffer.data[2 - (k % 2)][(k + 1) \div 2]]

\* a conversion that scales every sample by 0x8000
IntSampleUniform(x) ==
    LET sample == RMax(RInt(-1), RMin(RInt(1), x))
    IN  RTrunc(RMul(sample, RInt(32768)))

\* clamp to [-1, 1], scale, and store with setInt16 (truncation)
IntSample(x) ==
    LET sample == RMax(RInt(-1), RMin(RInt(1), x))
        scaled == IF sample[1] < 0 THEN RMul(sample, RInt(32768))
                                   ELSE RMul(sample, RInt(32767))
    IN  RTrunc(scaled)

\* setInt16 without its littleEndian argument: high byte first
I16BigEndian(x) ==
    <<(((x + 65536) % 65536) \div 256) % 256, ((x + 65536) % 65536) % 256>>

\* the two bytes of a little-endian Int16
I16(x) == U16((x + 65536) % 65536)

EncodeWAV(audioBuffer) ==
    LET numChannels == Min(2, audioBuffer.numberOfChannels)
        sampleRate == audioBuffer.sampleRate
        numSamples == audioBuffer.length
        bytesPerSample == 2
        interleaved == InterleaveChannels(audioBuffer)
        dataSize == numSamples * numChannels * bytesPerSample
        bufferSize == 44 + dataSize
        header == <<82, 73, 70, 70>> \o U32(bufferSize - 8) \o <<87, 65, 86, 69>>
                  \o <<102, 109, 116, 32>> \o U32(16) \o U16(1) \o U16(numChannels)
                  \o U32(sampleRate) \o U32(sampleRate * numChannels * bytesPerSample)
                  \o U16(numChannels * bytesPerSample) \o U16(bytesPerSample * 8)
                  \o <<100, 97, 116, 97>> \o U32(dataSize)
        pcm == [k \in 1..(2 * Len(interleaved)) |->
                   I16(IntSample(interleaved[(k + 1) \div 2]))[2 - (k % 2)]]
    IN  header \o pcm

-----------------------------------------------------------------------------
(* Inputs *)

Region(s, e) == [start |-> s, end |-> e]
Audio(ticks, channels, tone) == [ticks |-> ticks, channels |-> channels, tone |-> tone]

RegionStarts == {0, 11, 21, 27}
RegionLengths == {-8, 0, 2, 10}
RegionCandidates ==
    {r \in {Region(s, s + l) : s \in RegionStarts, l \in RegionLengths} : r.end >= 0}

SeqsUpTo(S, n) == UNION {[1..k -> S] : k \in 0..n}

\* region lists against one pair of stereo recordings of the same length
RegionInputs ==
    [vocals : {Audio(24, 2, "tone")}, instrumental : {Audio(24, 2, "beat")},
     regions : SeqsUpTo(RegionCandidates, MaxRegions), rate : {1}]

\* recordings of different lengths, channel counts and rates against short lists
AudioInputs ==
    [vocals : {Audio(t, ch, "tone") : t \in {10, 12}, ch \in {1, 2}},
     instrumental : {Audio(t, ch, tn) : t \in {10, 12}, ch \in {1, 2},
                                        tn \in {"beat", "silence"}},
     regions : {<<>>, <<Region(4, 6)>>}, rate : {1, 2}]

\* a 3 s tone over 3 s of silence, one word at 1.0..1.2 s padded by 0.1 s
ScenarioInput ==
    [vocals |-> Audio(300, 2, "tone"), instrumental |-> Audio(300, 2, "silence"),
     regions |-> <<Region(100 - 10, 120 + 10)>>, rate |-> 1]

\* the words (1.0, 1.2) and (1.25, 1.4) of a 3 s song
MergeExampleInput ==
    [vocals |-> Audio(300, 2, "tone"), instrumental |-> Audio(300, 2, "beat"),
     regions |-> <<Region(100, 120), Region(125, 140)>>, rate |-> 1]

\* a word of the analysis; end = 0 stands for a word without an end
Word(s, e) == [start |-> s, end |-> e]

\* ResultsView: a word as kept in detectedWords (timestamp, end), which
\* handleGenerateClean hands to renderCleanAudio as a mute region
PadWord(w) ==
    Region(Max(0, w.start - PadBefore),
           (IF w.end # 0 THEN w.end ELSE w.start + DefaultWordLength) + PadAfter)

MuteRegionsOfWords(words) == [k \in 1..Len(words) |-> PadWord(words[k])]

WordCandidates == {Word(10, 12), Word(18, 20), Word(30, 34), Word(47, 50), Word(60, 62)}
WordLists == SeqsUpTo(WordCandidates, MaxRegions)

\* the analysed words of a 0.9 s song, as ResultsView passes them on
WordInputs ==
    [vocals : {Audio(90, 2, "tone")}, instrumental : {Audio(90, 2, "beat")},
     regions : {MuteRegionsOfWords(words) : words \in WordLists}, rate : {1}]

\* two regions of the same start in both orders, one of them ending 0.16 s
\* before it starts
TiedRegionLists ==
    {<<Region(21, 5), Region(21, 23)>>, <<Region(21, 23), Region(21, 5)>>}

TiedInputs ==
    [vocals : {Audio(24, 2, "tone")}, instrumental : {Audio(24, 2, "beat")},
     regions : TiedRegionLists, rate : {1}]

Inputs ==
    RegionInputs \cup AudioInputs \cup WordInputs \cup TiedInputs
        \cup {ScenarioInput, MergeExampleInput}

NoBuffer == [length |-> 0, sampleRate |-> 0, numberOfChannels |-> 0, data |-> <<>>]

-----------------------------------------------------------------------------
(* renderCleanAudio *)

\* reports in which 'complete' is announced before the encoding
ProgressReportsEarlyComplete ==
    <<<<"loading", 0>>, <<"loading", 20>>, <<"loading", 50>>, <<"rendering", 60>>,
      <<"rendering", 70>>, <<"complete", 100>>, <<"encoding", 85>>>>

\* the reportProgress calls of renderCleanAudio, in the order of the code
ProgressReports ==
    <<<<"loading", 0>>, <<"loading", 20>>, <<"loading", 50>>, <<"rendering", 60>>,
      <<"rendering", 70>>, <<"encoding", 85>>, <<"complete", 100>>>>

\* onProgress?.(...): the reports from..upto reach the callback, if one is given
Delivered(from, upto) ==
    IF onProgress.given THEN reports \o SubSeq(ProgressReports, from, upto) ELSE reports

\* the first of the reports from..upto at which the callback throws, or 0
ThrowAt(from, upto) ==
    IF onProgress.given /\ onProgress.throwsAt \in from..upto
    THEN onProgress.throwsAt ELSE 0

\* Promise.race-like: fulfilled as soon as one load is
AnyFulfilled(states) == \E s \in DOMAIN states : states[s] = "decoded"

\* Promise.all is fulfilled when every promise is
AllFulfilled(states) == \A s \in DOMAIN states : states[s] = "decoded"

NoContext == [state |-> "none", closeCalls |-> 0, usesAfterClose |-> 0]
\* new AudioContext()
NewContext == [state |-> "running", closeCalls |-> 0, usesAfterClose |-> 0]
\* tempContext.close()
Close(context) == [context EXCEPT !.state = "closed", !.closeCalls = @ + 1]
\* tempContext.decodeAudioData(arrayBuffer)
DecodeOn(context) ==
    IF context.state = "closed" THEN [context EXCEPT !.usesAfterClose = @ + 1]
    ELSE context

NoError == [cause |-> "none", source |-> "none"]
CallbackError == [cause |-> "callbackThrew", source |-> "onProgress"]

\* an environment in which both loads and the rendering succeed
AllSucceed == [vocals |-> "ok", instrumental |-> "ok", rendering |-> "ok"]
\* a callback that takes the reports and returns
QuietCallback == [given |-> TRUE, throwsAt |-> 0]
\* no callback
NoCallback == [given |-> FALSE, throwsAt |-> 0]

InitWith(inputs, callbacks, environments) ==
    /\ \E in \in inputs :
          /\ vocalsUrl = in.vocals
          /\ instrumentalUrl = in.instrumental
          /\ muteRegions = in.regions
          /\ ctxRate = in.rate
    /\ onProgress \in callbacks
    /\ outcomes \in environments
    /\ pc = "idle"
    /\ loads = [vocals |-> "idle", instrumental |-> "idle"]
    /\ loadOrder = <<>>
    /\ buffers = <<>>
    /\ totalSamples = 0
    /\ mergedRegions = <<>>
    /\ gainEvents = <<>>
    /\ renderedBuffer = NoBuffer
    /\ blob = <<>>
    /\ calls = 0
    /\ prevBlob = <<>>
    /\ reports = <<>>
    /\ fetches = [vocals |-> 0, instrumental |-> 0]
    /\ tempContext = NoContext
    /\ error = NoError

\* every input, with a callback that returns and nothing failing
Init == InitWith(Inputs, {QuietCallback}, {AllSucceed})

\* the call, up to the await of Promise.all: the first two reports, the
\* temporary context, and both loads started; a throw of the callback at the
\* first report rejects at once, at the second it runs the finally block
Call ==
    /\ pc \in {"idle", "resolved", "rejected"}
    /\ \A s \in DOMAIN loads : loads[s] # "pending"
    /\ calls < MaxCalls
    /\ calls' = calls + 1
    /\ prevBlob' = blob
    /\ loadOrder' = <<>>
    /\ buffers' = <<>>
    /\ totalSamples' = 0
    /\ mergedRegions' = <<>>
    /\ gainEvents' = <<>>
    /\ renderedBuffer' = NoBuffer
    /\ blob' = <<>>
    /\ LET t == ThrowAt(1, 2)
       IN  /\ reports' = IF onProgress.given
                         THEN SubSeq(ProgressReports, 1, IF t = 0 THEN 2 ELSE t)
                         ELSE <<>>
           /\ tempContext' = IF t = 1 THEN NoContext
                             ELSE IF t = 2 THEN Close(NewContext)
                             ELSE NewContext
           /\ pc' = IF t = 1 THEN "rejected" ELSE IF t = 2 THEN "failing" ELSE "loading"
           /\ error' = IF t = 0 THEN NoError ELSE CallbackError
           /\ loads' = IF t = 0 THEN [vocals |-> "pending", instrumental |-> "pending"]
                       ELSE [vocals |-> "idle", instrumental |-> "idle"]
           /\ fetches' = IF t = 0 THEN [vocals |-> 1, instrumental |-> 1]
                         ELSE [vocals |-> 0, instrumental |-> 0]
    /\ UNCHANGED inputVars

\* one loadAudioBuffer promise fulfils: fetched, then decoded on tempContext
LoadResolves(s) ==
    /\ loads[s] = "pending"
    /\ outcomes[s] = "ok"
    /\ loads' = [loads EXCEPT ![s] = "decoded"]
    /\ loadOrder' = Append(loadOrder, s)
    /\ tempContext' = DecodeOn(tempContext)
    /\ UNCHANGED <<inputVars, pc, buffers, totalSamples, mergedRegions, gainEvents,
                   renderedBuffer, blob, calls, prevBlob, reports, fetches, error>>

\* a loop that fetches again after a failure
LoadRejectsRetrying(s) ==
    /\ loads[s] = "pending"
    /\ outcomes[s] # "ok"
    /\ fetches[s] < 3
    /\ fetches' = [fetches EXCEPT ![s] = @ + 1]
    /\ UNCHANGED <<inputVars, pc, loads, loadOrder, buffers, totalSamples,
                   mergedRegions, gainEvents, renderedBuffer, blob, calls, prevBlob,
                   reports, tempContext, error>>

\* one loadAudioBuffer promise rejects: the fetch failed or the response was
\* not OK ("fetchFails"), or decodeAudioData rejected ("decodeFails"); if the
\* call still awaits Promise.all, the rejection is thrown into it and the
\* finally block closes the context
LoadRejects(s) ==
    /\ loads[s] = "pending"
    /\ outcomes[s] # "ok"
    /\ loads' = [loads EXCEPT ![s] = "failed"]
    /\ LET used == IF outcomes[s] = "decodeFails" THEN DecodeOn(tempContext)
                   ELSE tempContext
       IN  IF pc = "loading"
           THEN /\ pc' = "failing"
                /\ error' = [cause |-> outcomes[s], source |-> s]
                /\ tempContext' = Close(used)
           ELSE /\ tempContext' = used
                /\ UNCHANGED <<pc, error>>
    /\ UNCHANGED <<inputVars, loadOrder, buffers, totalSamples, mergedRegions,
                   gainEvents, renderedBuffer, blob, calls, prevBlob, reports, fetches>>

\* Promise.all fulfils; the graph is built and startRendering is called; a
\* throw of the callback at one of the three reports runs the finally block
BuildGraph ==
    /\ pc = "loading"
    /\ AllFulfilled(loads)
    /\ LET results == [vocals |-> Decode(vocalsUrl, ctxRate),
                       instrumental |-> Decode(instrumentalUrl, ctxRate)]
           both == PromiseAll(results, loadOrder)
           vocalsBuffer == both[1]
           instrumentalBuffer == both[2]
           duration == RMax(Duration(vocalsBuffer), Duration(instrumentalBuffer))
           t == ThrowAt(3, 5)
       IN  /\ buffers' = both
           /\ totalSamples' = IF t = 3 THEN 0
                              ELSE TotalSamples(vocalsBuffer, instrumentalBuffer)
           /\ mergedRegions' = IF t \in {3, 4} THEN <<>> ELSE MergeRegions(muteRegions)
           /\ gainEvents' = IF t \in {3, 4} THEN <<>>
                            ELSE CreateVolumeAutomation(muteRegions, duration)
           /\ reports' = Delivered(3, IF t = 0 THEN 5 ELSE t)
           /\ pc' = IF t = 0 THEN "rendering" ELSE "failing"
           /\ error' = IF t = 0 THEN error ELSE CallbackError
           /\ tempContext' = IF t = 0 THEN tempContext ELSE Close(tempContext)
    /\ UNCHANGED <<inputVars, loads, loadOrder, renderedBuffer, blob, calls, prevBlob,
                   fetches>>

\* startRendering settles; when it fulfils the mix is encoded and the Blob
\* made; the return, like every throw, runs the finally block
RenderAndEncode ==
    /\ pc = "rendering"
    /\ LET t == ThrowAt(6, 7)
           failed == outcomes.rendering # "ok"
       IN  /\ renderedBuffer' = IF failed THEN NoBuffer
                                ELSE StartRendering(buffers[1], buffers[2], gainEvents,
                                                    totalSamples, buffers[1].sampleRate)
           /\ blob' = IF failed \/ t # 0 THEN <<>> ELSE EncodeWAV(renderedBuffer')
           /\ reports' = IF failed THEN reports ELSE Delivered(6, IF t = 0 THEN 7 ELSE t)
           /\ pc' = IF failed \/ t # 0 THEN "failing" ELSE "closing"
           /\ error' = IF failed THEN [cause |-> "renderFails", source |-> "startRendering"]
                       ELSE IF t # 0 THEN CallbackError ELSE error
    /\ tempContext' = Close(tempContext)
    /\ UNCHANGED <<inputVars, loads, loadOrder, buffers, totalSamples, mergedRegions,
                   gainEvents, calls, prevBlob, fetches>>

\* a finally block that turns every outcome into a resolved promise
CloseContextResolving ==
    /\ pc \in {"closing", "failing"}
    /\ pc' = "resolved"
    /\ UNCHANGED <<inputVars, loads, loadOrder, buffers, totalSamples, mergedRegions,
                   gainEvents, renderedBuffer, blob, calls, prevBlob, reports, fetches,
                   tempContext, error>>

\* finally: tempContext.close() fulfils and the promise settles: it resolves
\* with the Blob, or rejects with what was thrown
CloseContext ==
    /\ pc \in {"closing", "failing"}
    /\ pc' = IF pc = "closing" THEN "resolved" ELSE "rejected"
    /\ UNCHANGED <<inputVars, loads, loadOrder, buffers, totalSamples, mergedRegions,
                   gainEvents, renderedBuffer, blob, calls, prevBlob, reports, fetches,
                   tempContext, error>>

Next ==
    \/ Call
    \/ \E s \in {"vocals", "instrumental"} : LoadResolves(s)
    \/ BuildGraph
    \/ RenderAndEncode
    \/ CloseContext

Spec == Init /\ [][Next]_vars

\* callbacks: none, one that returns, one that throws at its k-th invocation
Callbacks ==
    {NoCallback} \cup {[given |-> TRUE, throwsAt |-> k] : k \in 0..Len(ProgressReports)}

\* what the network, the decoder and the renderer may do
Environments ==
    [vocals : {"ok", "fetchFails", "decodeFails"},
     instrumental : {"ok", "fetchFails", "decodeFails"},
     rendering : {"ok", "fails"}]

\* a mono and a stereo recording of different lengths
FlowInputs ==
    [vocals : {Audio(10, 1, "tone")}, instrumental : {Audio(12, 2, "beat")},
     regions : {<<>>, <<Region(4, 6)>>}, rate : {1}]

FlowInit == InitWith(FlowInputs, Callbacks, Environments)

FlowNext ==
    \/ Call
    \/ \E s \in {"vocals", "instrumental"} : LoadResolves(s)
    \/ \E s \in {"vocals", "instrumental"} : LoadRejects(s)
    \/ BuildGraph
    \/ RenderAndEncode
    \/ CloseContext

\* renderCleanAudio with every callback in every environment
FlowSpec == FlowInit /\ [][FlowNext]_vars

-----------------------------------------------------------------------------
(* The renderer of generate-clean-audio, which encodes to MP3 with lamejs *)

\* region.start - 0.05, region.end + 0.05
Mp3Pad == 5
\* const bitrate = 128
Mp3Bitrate == 128

\* the body of the loop over sortedRegions
Mp3AutomateRegion(timeline, region, duration) ==
    LET muteStart == RMax(RInt(0), RInt(region.start - Mp3Pad))
        muteEnd == RMin(duration, RInt(region.end + Mp3Pad))
        t1 == SetValueAtTime(timeline, 1, muteStart)
        t2 == LinearRampToValueAtTime(t1, 0, RAdd(muteStart, RInt(FadeTime)))
        t3 == SetValueAtTime(t2, 0, RSub(muteEnd, RInt(FadeTime)))
    IN  LinearRampToValueAtTime(t3, 1, muteEnd)

RECURSIVE Mp3AutomateFrom(_, _, _)
Mp3AutomateFrom(sortedRegions, n, duration) ==
    IF n = 0 THEN SetValueAtTime(<<>>, 1, RInt(0))
    ELSE Mp3AutomateRegion(Mp3AutomateFrom(sortedRegions, n - 1, duration),
                           sortedRegions[n], duration)

\* createVolumeAutomation of this renderer: the regions are sorted, not merged
Mp3CreateVolumeAutomation(regions, duration) ==
    LET sortedRegions == SortRegions(regions)
    IN  Mp3AutomateFrom(sortedRegions, Len(sortedRegions), duration)

\* the OfflineAudioContext has as many channels as the wider source
Mp3StartRendering(vocalsBuffer, instrumentalBuffer, timeline, n, rate) ==
    LET numChannels == Max(vocalsBuffer.numberOfChannels,
                           instrumentalBuffer.numberOfChannels)
    IN  [length |-> n,
         sampleRate |-> rate,
         numberOfChannels |-> numChannels,
         data |-> [c \in 1..numChannels |->
                      [i \in 1..n |-> DestinationOut(vocalsBuffer, instrumentalBuffer,
                                                     timeline, rate, c, i - 1)]]]

\* Math.max(-32768, Math.min(32767, x * 32768)) stored in an Int16Array
Mp3Sample(x) == RTrunc(RMax(RInt(-32768), RMin(RInt(32767), RMul(x, RInt(32768)))))

\* encodeToMp3 when lamejs works: the Blob of what the encoder returns, which
\* is determined by the encoder's parameters and the samples it is fed
EncodeToMp3(audioBuffer) ==
    LET numChannels == audioBuffer.numberOfChannels
        leftChannel == audioBuffer.data[1]
        rightChannel == IF numChannels > 1 THEN audioBuffer.data[2] ELSE leftChannel
    IN  [type |-> "audio/mp3",
         encoder |-> <<numChannels, audioBuffer.sampleRate, Mp3Bitrate>>,
         leftSamples |-> [i \in 1..audioBuffer.length |-> Mp3Sample(leftChannel[i])],
         rightSamples |-> [i \in 1..audioBuffer.length |-> Mp3Sample(rightChannel[i])]]

\* the call, up to the await of Promise.all
Mp3Call ==
    /\ pc \in {"idle", "resolved", "rejected"}
    /\ \A s \in DOMAIN loads : loads[s] # "pending"
    /\ calls < MaxCalls
    /\ calls' = calls + 1
    /\ prevBlob' = blob
    /\ pc' = "loading"
    /\ loads' = [vocals |-> "pending", instrumental |-> "pending"]
    /\ loadOrder' = <<>>
    /\ buffers' = <<>>
    /\ totalSamples' = 0
    /\ mergedRegions' = <<>>
    /\ gainEvents' = <<>>
    /\ renderedBuffer' = NoBuffer
    /\ blob' = <<>>
    /\ fetches' = [vocals |-> 1, instrumental |-> 1]
    /\ tempContext' = NewContext
    /\ error' = NoError
    /\ UNCHANGED <<inputVars, reports>>

\* Promise.all fulfils; the graph is built and startRendering is called
Mp3BuildGraph ==
    /\ pc = "loading"
    /\ AllFulfilled(loads)
    /\ LET results == [vocals |-> Decode(vocalsUrl, ctxRate),
                       instrumental |-> Decode(instrumentalUrl, ctxRate)]
           both == PromiseAll(results, loadOrder)
           vocalsBuffer == both[1]
           instrumentalBuffer == both[2]
           duration == RMax(Duration(vocalsBuffer), Duration(instrumentalBuffer))
       IN  /\ buffers' = both
           /\ totalSamples' = TotalSamples(vocalsBuffer, instrumentalBuffer)
           /\ mergedRegions' = SortRegions(muteRegions)
           /\ gainEvents' = Mp3CreateVolumeAutomation(muteRegions, duration)
    /\ pc' = "rendering"
    /\ UNCHANGED <<inputVars, loads, loadOrder, renderedBuffer, blob, calls, prevBlob,
                   reports, fetches, tempContext, error>>

\* startRendering fulfils and encodeToMp3 runs: lamejs either encodes the mix
\* or throws, and nothing catches what it throws; the finally block runs
Mp3RenderAndEncode ==
    /\ pc = "rendering"
    /\ renderedBuffer' = Mp3StartRendering(buffers[1], buffers[2], gainEvents,
                                           totalSamples, buffers[1].sampleRate)
    /\ \/ /\ blob' = EncodeToMp3(renderedBuffer')
          /\ pc' = "closing"
          /\ error' = error
       \/ /\ blob' = <<>>
          /\ pc' = "encoderThrew"
          /\ error' = [cause |-> "encoderThrew", source |-> "lamejs"]
    /\ tempContext' = Close(tempContext)
    /\ UNCHANGED <<inputVars, loads, loadOrder, buffers, totalSamples, mergedRegions,
                   gainEvents, calls, prevBlob, reports, fetches>>

\* finally: tempContext.close() fulfils; the promise resolves with the Blob
\* or rejects with the encoder's error
Mp3CloseContext ==
    /\ pc \in {"closing", "encoderThrew"}
    /\ pc' = IF pc = "closing" THEN "resolved" ELSE "rejected"
    /\ UNCHANGED <<inputVars, loads, loadOrder, buffers, totalSamples, mergedRegions,
                   gainEvents, renderedBuffer, blob, calls, prevBlob, reports, fetches,
                   tempContext, error>>

Mp3Next ==
    \/ Mp3Call
    \/ \E s \in {"vocals", "instrumental"} : LoadResolves(s)
    \/ Mp3BuildGraph
    \/ Mp3RenderAndEncode
    \/ Mp3CloseContext

\* every input, without a progress callback and with nothing but lamejs failing
Mp3Init == InitWith(Inputs, {NoCallback}, {AllSucceed})

Mp3Spec == Mp3Init /\ [][Mp3Next]_vars

-----------------------------------------------------------------------------
(* Properties *)

\* the automation has been scheduled
Scheduled == pc \in {"rendering", "closing", "resolved"}
\* the mix has been rendered and encoded
Rendered == pc \in {"closing", "resolved"}
\* duration, as renderCleanAudio computes it
TrackDuration == RMax(Duration(buffers[1]), Duration(buffers[2]))
\* the frames of the rendered mix, from 0, and the time of each
Frames == 0..(renderedBuffer.length - 1)
FrameTime(i) == Rat(i, renderedBuffer.sampleRate)
MixSample(c, i) == renderedBuffer.data[c][i + 1]

\* C7 (merge correctness): walking the regions in ascending start order, a
\* region that starts at most 0.1 s after the current interval's end is
\* absorbed and the interval's end becomes the larger of the two ends,
\* otherwise it begins a new interval; (1.0, 1.2) and (1.25, 1.4) yield the
\* single interval [1.0, 1.4].
C7_MergeCorrect ==
    Scheduled =>
        LET sorted == SortRegions(muteRegions)
            n == Len(sorted)
        IN  /\ n = Len(muteRegions)
            /\ \A i \in 1..(n - 1) : sorted[i].start <= sorted[i + 1].start
            /\ mergedRegions = MergeFrom(sorted, n)
            /\ \A k \in 1..n :
                  LET before == MergeFrom(sorted, k - 1)
                      after == MergeFrom(sorted, k)
                      region == sorted[k]
                      m == Len(before)
                  IN  IF m > 0 /\ region.start - before[m].end <= 10
                      THEN /\ Len(after) = m
                           /\ \A j \in 1..(m - 1) : after[j] = before[j]
                           /\ after[m].start = before[m].start
                           /\ after[m].end >= before[m].end
                           /\ after[m].end >= region.end
                           /\ after[m].end \in {before[m].end, region.end}
                      ELSE after = before \o <<region>>
            /\ (muteRegions = <<Region(100, 120), Region(125, 140)>>
                   => mergedRegions = <<Region(100, 140)>>)

\* C7 witness: the two words of the example were merged into [1.0, 1.4]
C7_Witness_Example ==
    /\ Scheduled
    /\ muteRegions = <<Region(100, 120), Region(125, 140)>>
    /\ mergedRegions = <<Region(100, 140)>>

TrackTimes ==
    {t \in {Rat(j, 2) : j \in 0..(2 * RCeil(TrackDuration))} : RLeq(t, TrackDuration)}

\* t lies outside every merged interval and more than the fade time away from
\* each interval's two boundaries
ClearOfMutes(t) ==
    \A k \in 1..Len(mergedRegions) :
        LET s == mergedRegions[k].start
            e == mergedRegions[k].end
        IN  /\ ~(RLeq(RInt(s), t) /\ RLeq(t, RInt(e)))
            /\ RLt(t, RInt(s - 3)) \/ RLt(RInt(s + 3), t)
            /\ RLt(t, RInt(e - 3)) \/ RLt(RInt(e + 3), t)

\* C1 (silence property): once the automation is scheduled, for every merged
\* interval [s, e] (of positive length, with its midpoint inside the track) the
\* gain of the vocals at (s + e) / 2 is exactly 0, and a frame rendered at that
\* time carries no vocal signal.
C1_SilentAtMidpoint ==
    Scheduled =>
        \A k \in 1..Len(mergedRegions) :
            LET s == mergedRegions[k].start
                e == mergedRegions[k].end
                mid == Rat(s + e, 2)
            IN  (s < e /\ RLeq(mid, TrackDuration)) =>
                    /\ GainAt(gainEvents, mid) = RInt(0)
                    /\ Rendered =>
                          \A i \in Frames : \A c \in 1..2 :
                              FrameTime(i) = mid =>
                                  MixSample(c, i) = SourceOut(buffers[2], c, i)

\* C2 (unity outside mutes): once the automation is scheduled, at every time
\* of the track that lies outside every merged interval and more than 0.03 s
\* away from each interval's boundaries the gain of the vocals is exactly 1,
\* and a frame rendered there carries the vocal sample unscaled.
C2_UnityOutsideMutes ==
    Scheduled =>
        /\ \A t \in TrackTimes : ClearOfMutes(t) => GainAt(gainEvents, t) = RInt(1)
        /\ Rendered =>
              \A i \in Frames : \A c \in 1..2 :
                  ClearOfMutes(FrameTime(i)) =>
                      MixSample(c, i) = RAdd(SourceOut(buffers[1], c, i),
                                             SourceOut(buffers[2], c, i))

\* the concrete scenario: a 3 s tone over 3 s of silence, the word
\* (1.0, 1.2) padded by 0.1 s on both sides
InScenario ==
    /\ vocalsUrl = ScenarioInput.vocals
    /\ instrumentalUrl = ScenarioInput.instrumental
    /\ muteRegions = ScenarioInput.regions
    /\ ctxRate = ScenarioInput.rate

\* C3 as stated: in the scenario every output sample at a time in
\* [0.87, 1.33] s is exactly 0, and every sample before 0.87 s or after
\* 1.33 s equals the unmodified vocal sample.
C3_Original_ZeroOverFades ==
    (InScenario /\ Rendered) =>
        \A i \in Frames : \A c \in 1..2 :
            LET t == FrameTime(i)
            IN  /\ (RLeq(RInt(87), t) /\ RLeq(t, RInt(133)))
                      => MixSample(c, i) = RInt(0)
                /\ (RLt(t, RInt(87)) \/ RLt(RInt(133), t))
                      => MixSample(c, i) = SourceOut(buffers[1], c, i)

\* C3 (amended): in the scenario every output sample at a time in
\* [0.90, 1.30] s is exactly 0, every sample at or before 0.87 s or at or
\* after 1.33 s equals the unmodified vocal sample, and in between (the two
\* 0.03 s fades) the vocal sample is scaled by a gain strictly between 0 and 1.
C3_ScenarioMuted ==
    (InScenario /\ Rendered) =>
        /\ renderedBuffer.length = 300 * ctxRate
        /\ \A i \in Frames : \A c \in 1..2 :
              LET t == FrameTime(i)
                  g == GainAt(gainEvents, t)
              IN  /\ (RLeq(RInt(90), t) /\ RLeq(t, RInt(130)))
                        => MixSample(c, i) = RInt(0)
                  /\ (RLeq(t, RInt(87)) \/ RLeq(RInt(133), t))
                        => MixSample(c, i) = SourceOut(buffers[1], c, i)
                  /\ ((RLt(RInt(87), t) /\ RLt(t, RInt(90)))
                        \/ (RLt(RInt(130), t) /\ RLt(t, RInt(133))))
                        => /\ RLt(RInt(0), g) /\ RLt(g, RInt(1))
                           /\ MixSample(c, i) = RMul(SourceOut(buffers[1], c, i), g)

\* C3 witness: the scenario was rendered; the tone is audible at 0.87 s and at
\* 1.33 s and silent at 0.90 s and 1.30 s
C3_Witness_Scenario ==
    /\ InScenario
    /\ pc = "resolved"
    /\ MixSample(1, 87) # RInt(0)
    /\ MixSample(1, 90) = RInt(0)
    /\ MixSample(1, 130) = RInt(0)
    /\ MixSample(1, 133) # RInt(0)
    /\ SourceOut(buffers[1], 1, 100) # RInt(0)

\* the mix of the same two buffers with an empty region list
UnmutedMix ==
    StartRendering(buffers[1], buffers[2], CreateVolumeAutomation(<<>>, TrackDuration),
                   totalSamples, buffers[1].sampleRate)

\* C4 (continuity): what a rendered sample holds besides the gain-scaled
\* vocal sample is the instrumental sample itself, the same as in the render
\* of the same buffers without any mute region.
C4_InstrumentalUntouched ==
    Rendered =>
        \A i \in Frames : \A c \in 1..2 :
            LET vocal == SourceOut(buffers[1], c, i)
                rest == RSub(MixSample(c, i), RMul(vocal, GainAt(gainEvents, FrameTime(i))))
            IN  /\ rest = SourceOut(buffers[2], c, i)
                /\ rest = RSub(UnmutedMix.data[c][i + 1], vocal)

\* C4 witness: a render with a mute region in which a muted frame carries a
\* non-zero instrumental sample
C4_Witness_MutedFrame ==
    /\ Rendered
    /\ muteRegions # <<>>
    /\ \E i \in Frames :
          /\ GainAt(gainEvents, FrameTime(i)) = RInt(0)
          /\ SourceOut(buffers[1], 1, i) # RInt(0)
          /\ MixSample(1, i) # RInt(0)
          /\ MixSample(1, i) = SourceOut(buffers[2], 1, i)
          /\ MixSample(1, i) # UnmutedMix.data[1][i + 1]

PlainSum ==
    [length |-> totalSamples,
     sampleRate |-> buffers[1].sampleRate,
     numberOfChannels |-> 2,
     data |-> [c \in 1..2 |->
                 [i \in 1..totalSamples |->
                     RAdd(SourceOut(buffers[1], c, i - 1),
                          SourceOut(buffers[2], c, i - 1))]]]

\* C6 (empty region list): with no mute region the gain is 1 over the whole
\* track and the returned bytes are the encoding of the plain sum.
C6_EmptyListPlainMix ==
    (Scheduled /\ muteRegions = <<>>) =>
        /\ \A t \in TrackTimes : GainAt(gainEvents, t) = RInt(1)
        /\ Rendered => blob = EncodeWAV(PlainSum)

\* C6 witness: a render without regions whose vocals are audible
C6_Witness_NoRegions ==
    /\ pc = "resolved"
    /\ muteRegions = <<>>
    /\ Len(blob) = 44 + 4 * totalSamples
    /\ \E i \in Frames : SourceOut(buffers[1], 1, i) # RInt(0)

\* C9 (length): the mix has the least whole number of frames that is at
\* least max(vocals.duration, instrumental.duration) * sampleRate, whichever
\* source is the longer; 10 s and 12 s at 44100 Hz give 529200 frames.
C9_MixLength ==
    /\ Rendered =>
          LET product == RMul(TrackDuration, RInt(buffers[1].sampleRate))
              n == renderedBuffer.length
          IN  /\ n = totalSamples
              /\ RLeq(product, RInt(n)) /\ RLt(RInt(n - 1), product)
              /\ \A c \in 1..2 : Len(renderedBuffer.data[c]) = n
              /\ n >= buffers[1].length /\ n >= buffers[2].length
    /\ LET tenSeconds == [length |-> 441000, sampleRate |-> 44100]
           twelveSeconds == [length |-> 529200, sampleRate |-> 44100]
       IN  /\ TotalSamples(tenSeconds, twelveSeconds) = 529200
           /\ TotalSamples(twelveSeconds, tenSeconds) = 529200

\* C9 witness: a mix of a shorter vocal and a longer instrumental
C9_Witness_LongerInstrumental ==
    /\ Rendered
    /\ buffers[1].length < buffers[2].length
    /\ renderedBuffer.length = buffers[2].length

\* C10 (shorter source is silence): from the end of the shorter source on,
\* a rendered sample is the other source's contribution alone.
C10_ShorterSourceSilent ==
    Rendered =>
        \A i \in Frames : \A c \in 1..2 :
            /\ i >= buffers[1].length
                  => MixSample(c, i) = SourceOut(buffers[2], c, i)
            /\ i >= buffers[2].length
                  => /\ SourceOut(buffers[2], c, i) = RInt(0)
                     /\ MixSample(c, i) = RMul(SourceOut(buffers[1], c, i),
                                               GainAt(gainEvents, FrameTime(i)))
            /\ (i >= buffers[1].length /\ i >= buffers[2].length)
                  => MixSample(c, i) = RInt(0)

\* C10 witness: the vocals are the shorter source and the instrumental is
\* audible after their end
C10_Witness_ShortVocals ==
    /\ Rendered
    /\ buffers[1].length < buffers[2].length
    /\ buffers[1].data[1][1] # RInt(0)
    /\ MixSample(1, buffers[1].length) # RInt(0)

\* the 16-bit sample stored in the blob for channel c of frame i
BlobSample(c, i) == <<blob[44 + 4 * i + 2 * c - 1], blob[44 + 4 * i + 2 * c]>>

\* C11 (stereo output): whatever the channel counts of the two sources, the
\* rendered mix has exactly 2 channels and so has the container (channel
\* field 2, 4 bytes per frame); what a mono source adds to the mix is its
\* single channel, the same on the left and on the right, and a mix of two
\* mono sources is stored with equal left and right samples.
C11_StereoOutput ==
    Rendered =>
        /\ renderedBuffer.numberOfChannels = 2
        /\ DOMAIN renderedBuffer.data = 1..2
        /\ SubSeq(blob, 23, 24) = <<2, 0>>
        /\ SubSeq(blob, 33, 34) = <<4, 0>>
        /\ Len(blob) = 44 + 4 * renderedBuffer.length
        /\ \A i \in Frames : \A c \in 1..2 :
              LET gain == GainAt(gainEvents, FrameTime(i))
                  vocalPart == RSub(MixSample(c, i), SourceOut(buffers[2], c, i))
                  instrumentalPart ==
                      RSub(MixSample(c, i), RMul(SourceOut(buffers[1], c, i), gain))
              IN  /\ (buffers[1].numberOfChannels = 1 /\ i < buffers[1].length)
                        => vocalPart = RMul(buffers[1].data[1][i + 1], gain)
                  /\ (buffers[2].numberOfChannels = 1 /\ i < buffers[2].length)
                        => instrumentalPart = buffers[2].data[1][i + 1]
        /\ (buffers[1].numberOfChannels = 1 /\ buffers[2].numberOfChannels = 1)
              => \A i \in Frames : /\ MixSample(1, i) = MixSample(2, i)
                                   /\ BlobSample(1, i) = BlobSample(2, i)

\* C11 witness: mono vocals were mixed with a stereo instrumental; the vocal
\* sample is on both channels of a frame whose two channels differ
C11_Witness_MonoVocals ==
    /\ Rendered
    /\ buffers[1].numberOfChannels = 1
    /\ buffers[2].numberOfChannels = 2
    /\ renderedBuffer.numberOfChannels = 2
    /\ \E i \in Frames :
          /\ i < buffers[1].length
          /\ buffers[1].data[1][i + 1] # RInt(0)
          /\ MixSample(1, i) # MixSample(2, i)
          /\ RSub(MixSample(1, i), SourceOut(buffers[2], 1, i)) = buffers[1].data[1][i + 1]
          /\ RSub(MixSample(2, i), SourceOut(buffers[2], 2, i)) = buffers[1].data[1][i + 1]

\* the list without its k-th region
WithoutRegion(regions, k) ==
    [j \in 1..(Len(regions) - 1) |-> IF j < k THEN regions[j] ELSE regions[j + 1]]

\* C13 (degenerate regions are dropped): a region with end <= start has no
\* effect: the gain over the track and the returned bytes are those of the
\* render of the list without that region.
C13_DegenerateDropped ==
    Rendered =>
        \A k \in 1..Len(muteRegions) :
            muteRegions[k].end <= muteRegions[k].start =>
                LET timeline == CreateVolumeAutomation(WithoutRegion(muteRegions, k),
                                                       TrackDuration)
                IN  /\ \A t \in TrackTimes : GainAt(gainEvents, t) = GainAt(timeline, t)
                    /\ blob = EncodeWAV(StartRendering(buffers[1], buffers[2], timeline,
                                                       totalSamples, buffers[1].sampleRate))

\* the gap between two words and whether their padded windows overlap
WordGap(a, b) == Max(a.start, b.start) - Min(a.end, b.end)
PaddedOverlap(a, b) ==
    /\ PadWord(a).start <= PadWord(b).end
    /\ PadWord(b).start <= PadWord(a).end

\* C14 (padding comes after merging): when the regions are the words of an
\* analysis, the mute intervals are the words merged on their unpadded times
\* (tolerance 0.1 s), each merged interval then widened by 0.1 s before and
\* 0.2 s after; two words more than 0.1 s apart whose padded windows do not
\* overlap give two separate intervals.
C14_PadAfterMerge ==
    Scheduled =>
        \A words \in WordLists :
            muteRegions = MuteRegionsOfWords(words) =>
                LET merged == MergeRegions(words)
                IN  /\ mergedRegions =
                          [k \in 1..Len(merged) |->
                              Region(Max(0, merged[k].start - 10), merged[k].end + 20)]
                    /\ (/\ Len(words) = 2
                        /\ WordGap(words[1], words[2]) > 10
                        /\ ~PaddedOverlap(words[1], words[2]))
                          => Len(mergedRegions) = 2

\* every region of the list lies inside the track and has start <= end
RegionsInsideTrack ==
    \A k \in 1..Len(muteRegions) :
        /\ 0 <= muteRegions[k].start
        /\ muteRegions[k].start <= muteRegions[k].end
        /\ RLeq(RInt(muteRegions[k].end), TrackDuration)

\* [s, e] lies at least the fade time away from both ends of the track
InteriorInterval(s, e) ==
    /\ 3 <= s
    /\ s <= e
    /\ RLeq(RInt(e + 3), TrackDuration)

\* the automation holds an event of this type and value at this time
HasEvent(type, value, time) ==
    \E j \in 1..Len(gainEvents) :
        gainEvents[j] = [type |-> type, value |-> value, time |-> RInt(time)]

\* C15 as stated: each mute interval [s, e] has the control points
\* (s - 0.03, 1), (s, 0), (e - 0.03, 0), (e, 1); the fade-out ends exactly at
\* s and the gain is back at 1 exactly at e.
C15_Original_FadeInBeforeEnd ==
    (Scheduled /\ RegionsInsideTrack) =>
        \A k \in 1..Len(mergedRegions) :
            LET s == mergedRegions[k].start
                e == mergedRegions[k].end
            IN  InteriorInterval(s, e) =>
                    /\ HasEvent("setValueAtTime", 1, s - 3)
                    /\ HasEvent("linearRampToValueAtTime", 0, s)
                    /\ HasEvent("setValueAtTime", 0, e - 3)
                    /\ HasEvent("linearRampToValueAtTime", 1, e)
                    /\ GainAt(gainEvents, RInt(s)) = RInt(0)
                    /\ GainAt(gainEvents, RInt(e)) = RInt(1)

\* C15 (amended): for a list of regions inside the track, each merged
\* interval [s, e] at least 0.03 s away from the track's ends has the control
\* points (s - 0.03, 1), (s, 0), (e, 0), (e + 0.03, 1): the gain falls
\* linearly from 1 at s - 0.03 to 0 exactly at s, is 0 from s to e, and rises
\* linearly to be back at 1 exactly at e + 0.03.
C15_EnvelopeShape ==
    (Scheduled /\ RegionsInsideTrack) =>
        \A k \in 1..Len(mergedRegions) :
            LET s == mergedRegions[k].start
                e == mergedRegions[k].end
            IN  InteriorInterval(s, e) =>
                    /\ HasEvent("setValueAtTime", 1, s - 3)
                    /\ HasEvent("linearRampToValueAtTime", 0, s)
                    /\ HasEvent("setValueAtTime", 0, e)
                    /\ HasEvent("linearRampToValueAtTime", 1, e + 3)
                    /\ \A t \in TrackTimes :
                          /\ (RLeq(RInt(s - 3), t) /\ RLeq(t, RInt(s)))
                                => GainAt(gainEvents, t) = RDiv(RSub(RInt(s), t), RInt(3))
                          /\ (RLeq(RInt(s), t) /\ RLeq(t, RInt(e)))
                                => GainAt(gainEvents, t) = RInt(0)
                          /\ (RLeq(RInt(e), t) /\ RLeq(t, RInt(e + 3)))
                                => GainAt(gainEvents, t) = RDiv(RSub(t, RInt(e)), RInt(3))

\* C15 witness: an interval inside the track whose gain is 0 at its end,
\* one half in the middle of the fade-in and 1 at 0.03 s after its end
C15_Witness_FadeInAfterEnd ==
    /\ Scheduled
    /\ RegionsInsideTrack
    /\ \E k \in 1..Len(mergedRegions) :
          LET s == mergedRegions[k].start
              e == mergedRegions[k].end
          IN  /\ InteriorInterval(s, e)
              /\ s < e
              /\ GainAt(gainEvents, RInt(e)) = RInt(0)
              /\ GainAt(gainEvents, Rat(2 * e + 3, 2)) = Rat(1, 2)
              /\ GainAt(gainEvents, RInt(e + 3)) = RInt(1)

\* C16 (control points ordered and clamped): for a list of regions with
\* 0 <= start < end, the times of the scheduled gain events never decrease
\* in the order of the calls and all lie in [0, duration], wherever the
\* regions lie with respect to the track's ends.
C16_OrderedAndClamped ==
    (Scheduled /\ \A k \in 1..Len(muteRegions) :
                      0 <= muteRegions[k].start /\ muteRegions[k].start < muteRegions[k].end) =>
        LET times == EmittedTimes(muteRegions, TrackDuration)
        IN  /\ Len(times) = Len(gainEvents)
            /\ \A j \in 1..Len(times) :
                  /\ RLeq(RInt(0), times[j])
                  /\ RLeq(times[j], TrackDuration)
            /\ \A j \in 1..(Len(times) - 1) : RLeq(times[j], times[j + 1])

\* the bytes of the blob from byte offset `at` (from 0), read as an ASCII
\* tag, a little-endian unsigned 16- or 32-bit number, a signed 16-bit one
TagAt(at) == SubSeq(blob, at + 1, at + 4)
Uint16At(at) == blob[at + 1] + 256 * blob[at + 2]
Uint32At(at) ==
    blob[at + 1] + 256 * blob[at + 2] + 65536 * blob[at + 3] + 16777216 * blob[at + 4]
Int16At(at) == IF Uint16At(at) >= 32768 THEN Uint16At(at) - 65536 ELSE Uint16At(at)

StoredSamples ==
    {<<MixSample(c, i), Int16At(44 + 4 * i + 2 * (c - 1))>> : c \in 1..2, i \in Frames}

\* C18 (sample quantisation): every stored sample is in [-32768, 32767];
\* a sample of -1 or below is stored as -32768, 0 as 0, +1 or above as
\* 32767; a sample strictly between -1 and 0 is stored as its product with
\* 32768 and one strictly between 0 and 1 as its product with 32767, each cut
\* to a whole number toward zero; a larger sample is never stored as a
\* smaller number.
C18_Quantisation ==
    Rendered =>
        /\ \A p \in StoredSamples :
              LET x == p[1]
                  v == p[2]
              IN  /\ v \in -32768..32767
                  /\ RLeq(x, RInt(-1)) => v = -32768
                  /\ x = RInt(0) => v = 0
                  /\ RLeq(RInt(1), x) => v = 32767
                  /\ (RLt(RInt(-1), x) /\ RLt(x, RInt(0)))
                        => /\ RLeq(RMul(x, RInt(32768)), RInt(v))
                           /\ RLt(RInt(v - 1), RMul(x, RInt(32768)))
                  /\ (RLt(RInt(0), x) /\ RLt(x, RInt(1)))
                        => /\ RLeq(RInt(v), RMul(x, RInt(32767)))
                           /\ RLt(RMul(x, RInt(32767)), RInt(v + 1))
        /\ \A p, q \in StoredSamples : RLeq(p[1], q[1]) => p[2] <= q[2]

\* C18 witness: one mix holds a sample below -1, one above +1, a zero, and a
\* positive sample that is not a whole number of 16-bit steps
C18_Witness_Clamped ==
    /\ Rendered
    /\ \E p \in StoredSamples : RLt(p[1], RInt(-1)) /\ p[2] = -32768
    /\ \E p \in StoredSamples : RLt(RInt(1), p[1]) /\ p[2] = 32767
    /\ \E p \in StoredSamples : p[1] = RInt(0) /\ p[2] = 0
    /\ \E p \in StoredSamples :
          /\ RLt(RInt(0), p[1]) /\ RLt(p[1], RInt(1))
          /\ RLt(RInt(p[2]), RMul(p[1], RInt(32767)))

\* | x - v / 32768 |, the error of a standard PCM decoder on the stored v
RoundTripError(x, v) ==
    LET decoded == Rat(v, 32768)
    IN  IF RLeq(decoded, x) THEN RSub(x, decoded) ELSE RSub(decoded, x)

\* C19 as stated: for every sample x in [-1, 1] the stored number divided by
\* 32768 is within 1/32768 of x.
C19_Original_WithinOneStep ==
    Rendered =>
        \A p \in StoredSamples :
            (RLeq(RInt(-1), p[1]) /\ RLeq(p[1], RInt(1)))
                => RLeq(RoundTripError(p[1], p[2]), Rat(1, 32768))

\* C19 (amended): for every sample x in [-1, 1] the stored number divided by
\* 32768 is less than 2/32768 away from x and never larger in magnitude than
\* x; for x <= 0 it is less than 1/32768 away.
C19_RoundTrip ==
    Rendered =>
        \A p \in StoredSamples :
            (RLeq(RInt(-1), p[1]) /\ RLeq(p[1], RInt(1))) =>
                /\ RLt(RoundTripError(p[1], p[2]), Rat(2, 32768))
                /\ RLeq(p[1], RInt(0))
                      => /\ RLt(RoundTripError(p[1], p[2]), Rat(1, 32768))
                         /\ RLeq(p[1], Rat(p[2], 32768))
                /\ RLeq(RInt(0), p[1]) => RLeq(Rat(p[2], 32768), p[1])

\* C19 witness: a positive sample below 1 whose round trip is off by more
\* than one 16-bit step
C19_Witness_PositiveSample ==
    /\ Rendered
    /\ \E p \in StoredSamples :
          /\ RLt(RInt(0), p[1]) /\ RLt(p[1], RInt(1))
          /\ RLt(Rat(1, 32768), RoundTripError(p[1], p[2]))
          /\ RLt(RoundTripError(p[1], p[2]), Rat(2, 32768))

\* C20 (compressed-path fallback), under Mp3Spec: a throw of the MP3 encoder
\* never makes the render fail; the render then holds the uncompressed
\* container of the mix as its result, and the call never rejects.
C20_FallbackOnEncoderFailure ==
    /\ pc = "encoderThrew" => blob = EncodeWAV(renderedBuffer)
    /\ pc # "rejected"

-----------------------------------------------------------------------------
(* Properties of the call as a whole, checked under FlowSpec *)

Sources == {"vocals", "instrumental"}
ReportedStages == {reports[j][1] : j \in 1..Len(reports)}

\* C21 (fetch/decode failure is fatal and not retried): no URL is requested
\* more than once in a call; once a load has failed the call is on its way
\* to rejecting or has rejected, with the error of a load that failed, and
\* there is no blob.
C21_LoadFailureFatal ==
    /\ \A s \in Sources : fetches[s] <= 1
    /\ (\E s \in Sources : loads[s] = "failed") =>
          /\ pc \in {"failing", "rejected"}
          /\ blob = <<>>
          /\ error.source \in {s \in Sources : loads[s] = "failed"}
          /\ error.cause = outcomes[error.source]
          /\ error.cause \in {"fetchFails", "decodeFails"}

\* C21 witness: the call rejected with the fetch failure of the vocals after
\* one request for each URL, the instrumental having been decoded
C21_Witness_FetchFailed ==
    /\ pc = "rejected"
    /\ error = [cause |-> "fetchFails", source |-> "vocals"]
    /\ loads = [vocals |-> "failed", instrumental |-> "decoded"]
    /\ fetches = [vocals |-> 1, instrumental |-> 1]
    /\ blob = <<>>

StageRank(stage) ==
    CASE stage = "loading" -> 1
      [] stage = "rendering" -> 2
      [] stage = "encoding" -> 3
      [] stage = "complete" -> 4

\* C23 (progress stage order): in the reports of one call the stages only
\* move forward through loading, rendering, encoding, complete, the progress
\* numbers never decrease, and 'complete' comes at most once, with progress
\* 100, as the last report.
C23_StageOrder ==
    /\ \A j \in 1..Len(reports) :
          /\ reports[j][1] \in {"loading", "rendering", "encoding", "complete"}
          /\ reports[j][1] = "complete" => (reports[j][2] = 100 /\ j = Len(reports))
          /\ \A k \in (j + 1)..Len(reports) :
                /\ StageRank(reports[j][1]) <= StageRank(reports[k][1])
                /\ reports[j][2] <= reports[k][2]
    /\ pc \in {"closing", "resolved"} /\ onProgress.given
          => reports[Len(reports)] = <<"complete", 100>>

\* C23 witness: a call resolved after seven reports, the stages of which
\* run through loading, rendering, encoding and complete
C23_Witness_AllStages ==
    /\ pc = "resolved"
    /\ Len(reports) = 7
    /\ ReportedStages = {"loading", "rendering", "encoding", "complete"}
    /\ reports[1] = <<"loading", 0>>
    /\ reports[7] = <<"complete", 100>>

\* C24 (progress is observational): the callback cannot abort the render: a
\* call never fails with what the callback threw, and a call rejects only
\* when a load or the rendering failed, so with everything succeeding it
\* resolves whatever the callback does.
C24_ProgressObservational ==
    /\ error.cause # "callbackThrew"
    /\ pc \in {"failing", "rejected"} =>
          \E s \in DOMAIN outcomes : outcomes[s] # "ok"

\* the render step has started: its stage was reported, or the graph exists
MixingStarted ==
    \/ pc \in {"rendering", "closing", "resolved"}
    \/ "rendering" \in ReportedStages
    \/ gainEvents # <<>>
    \/ renderedBuffer # NoBuffer

\* C25 (both decodes precede mixing): the render step starts only when both
\* loads have been decoded, in whichever order they completed, and it never
\* starts in a call one of whose loads failed or is still pending.
C25_DecodesPrecedeMixing ==
    /\ MixingStarted =>
          /\ \A s \in Sources : loads[s] = "decoded"
          /\ Len(loadOrder) = 2 /\ {loadOrder[1], loadOrder[2]} = Sources
          /\ buffers = <<Decode(vocalsUrl, ctxRate), Decode(instrumentalUrl, ctxRate)>>
    /\ (\E s \in Sources : loads[s] \in {"failed", "pending"}) => ~MixingStarted

\* C25 witness: the instrumental was decoded before the vocals, and the
\* rendering stage was then reported
C25_Witness_InstrumentalFirst ==
    /\ pc = "rendering"
    /\ loadOrder = <<"instrumental", "vocals">>
    /\ "rendering" \in ReportedStages
    /\ buffers[1].numberOfChannels = 1

-----------------------------------------------------------------------------
(* Further properties of createVolumeAutomation, checked under Spec *)

\* C26 (fades of neighbouring intervals never cross): for every region list,
\* two consecutive merged intervals are more than 0.1 s apart; the last event
\* of the first (the end of its fade-in) lies before the first event of the
\* second (the start of its fade-out), and the gain is 1 at both of these
\* times.  The distance and the order of the two times hold for every list;
\* the gain is back at 1 only when no region of the list has end < start.
C26_FadesNeverCross ==
    Scheduled =>
        \A i \in 1..(Len(mergedRegions) - 1) :
            LET first == RegionEventTimes(mergedRegions[i], TrackDuration)
                second == RegionEventTimes(mergedRegions[i + 1], TrackDuration)
            IN  /\ mergedRegions[i + 1].start - mergedRegions[i].end > 10
                /\ RLt(first[4], second[1])
                /\ GainAt(gainEvents, first[4]) = RInt(1)
                /\ GainAt(gainEvents, second[1]) = RInt(1)


\* the lists that hold the regions of a list in another order
Reorderings(list) ==
    {[k \in 1..Len(list) |-> list[p[k]]] :
        p \in {q \in [1..Len(list) -> 1..Len(list)] :
                  \A i, j \in 1..Len(list) : i # j => q[i] # q[j]}}

\* the lists that hold one region of a list once more, at any place
WithRepeat(list) ==
    {SubSeq(list, 1, at) \o <<list[k]>> \o SubSeq(list, at + 1, Len(list)) :
        k \in 1..Len(list), at \in 0..Len(list)}

\* C27 (order independence of normalisation): every permutation of the region
\* list, and every list with one of its regions repeated, gives the merged
\* interval list and the gain curve of the render of the list itself.
C27_OrderIndependent ==
    Scheduled =>
        \A other \in Reorderings(muteRegions) \cup WithRepeat(muteRegions) :
            /\ MergeRegions(other) = mergedRegions
            /\ CreateVolumeAutomation(other, TrackDuration) = gainEvents


-----------------------------------------------------------------------------
(* Properties of the temporary AudioContext, checked under FlowSpec *)

\* a call that has settled after creating its AudioContext
SettledWithContext ==
    pc \in {"resolved", "rejected"} /\ tempContext.state # "none"

\* the context is closed exactly once before the promise settles
ClosedOnceBeforeSettling ==
    SettledWithContext =>
        tempContext.state = "closed" /\ tempContext.closeCalls = 1

\* C28 (decode context is always released): a call that created the temporary
\* AudioContext has closed it exactly once when its promise settles, on the
\* success path and on every failure path, and no load of the call decodes on
\* the context after it was closed.
C28_ContextReleased ==
    /\ ClosedOnceBeforeSettling
    /\ tempContext.usesAfterClose = 0

\* C30 (no close while a decode is in flight): whenever the temporary
\* AudioContext is closed, neither of the two loads of the call is pending.
C30_NoCloseWhileLoading ==
    tempContext.state = "closed" => \A s \in Sources : loads[s] # "pending"


-----------------------------------------------------------------------------
(* Silence over a whole interval, checked under Spec *)

\* C29 (whole-interval silence at the track edges): once the automation is
\* scheduled, for every merged interval [s, e] with e > s the gain of the
\* vocals is exactly 0 at every time of [s, e] inside the track, also when
\* the fade-out start is clamped to 0 and the fade-in end to the duration.
C29_SilentOverInterval ==
    Scheduled =>
        \A k \in 1..Len(mergedRegions) :
            LET s == mergedRegions[k].start
                e == mergedRegions[k].end
            IN  s < e =>
                    \A t \in s..e :
                        (t >= 0 /\ RLeq(RInt(t), TrackDuration)) =>
                            GainAt(gainEvents, RInt(t)) = RInt(0)

=============================================================================
